---------------------------- MODULE Spec2Model ----------------------------
(***************************************************************************)
(* A model of the shapes2d primitives (src/src/*.rs).                      *)
(*                                                                         *)
(* Scalars.  The library stores f32 values.  A rectangle coordinate is     *)
(* modelled by an integer n that stands for the f32 value n * q, q a fixed *)
(* power of two (q = 1 in the scenarios).  On such values f32 addition and *)
(* subtraction are exact as long as the result stays far below 2^24 * q,   *)
(* and multiplying by 0.5 is exact when the result is again on the grid.   *)
(* The model stays inside that range: every action is guarded by a window  *)
(* on the coordinates, and set_center is taken only when the halves are on *)
(* the grid.  f32 rounding outside that range is not modelled.             *)
(***************************************************************************)
EXTENDS Integers, Sequences, FiniteSets, TLC

VARIABLES
    rect,        \* Rectangle { min, max }
    rect_op,     \* the last call on rect: its name and arguments
    rect_size0,  \* size() after the last constructor or resizing setter
    rect_chain,  \* TRUE when the last two calls were both translating setters
    rect_same,   \* TRUE when the last call left min and max as they were
    ray,         \* Ray { origin, direction }
    ray_old,     \* the ray before the last call
    ray_op,      \* the last call on ray: its name and arguments
    ord_a,       \* a ray or rectangle on which two setters are called
    ord_b,       \* a copy of it on which they are called in the other order
    ord_in,      \* the value both start from and the arguments of the two calls
    ord_pc,      \* how many of the two calls were made on ord_a and on ord_b
    line,        \* Line { origin, end }
    line_op,     \* the last call on line: its name and arguments
    circle,      \* Circle { center, radius }
    circle_op,   \* the last call on circle: its name and arguments
    tri,         \* Triangle { coordinate1, coordinate2, coordinate3 }
    tri_op,      \* the last call on tri: its name and argument
    point,       \* Point { coordinate }
    point_op,    \* the last call on point: its name and argument
    got          \* the last getter call: the shape, the getter and its value

rect_vars == <<rect, rect_op, rect_size0, rect_chain, rect_same>>

ray_vars == <<ray, ray_old, ray_op>>

ord_vars == <<ord_a, ord_b, ord_in, ord_pc>>

line_vars == <<line, line_op>>

circle_vars == <<circle, circle_op>>

tri_vars == <<tri, tri_op>>

point_vars == <<point, point_op>>

vars == <<rect_vars, ray_vars, ord_vars, line_vars, circle_vars, tri_vars,
          point_vars, got>>

(***************************************************************************)
(* Bounds of the model.                                                    *)
(***************************************************************************)
\* arguments of the setters range over -MaxArg .. MaxArg
MaxArg == 1

\* the stored position and size are kept within -MaxCoord .. MaxCoord
MaxCoord == MaxArg + 1

Scalars == (0 - MaxArg) .. MaxArg
Coords == (0 - MaxCoord) .. MaxCoord

(***************************************************************************)
(* glam::Vec2 restricted to grid values: a pair of scalars.                *)
(***************************************************************************)
Vec2_new(x, y) == [x |-> x, y |-> y]

Points == {Vec2_new(x, y) : x \in Scalars, y \in Scalars}

\* f32 * 0.5, exact on even grid values
MulHalf(n) == n \div 2

OnGridHalf(n) == n % 2 = 0

(***************************************************************************)
(* Rectangle: constructors                                                 *)
(***************************************************************************)
Rectangle_new_coordinates(min, max) == [min |-> min, max |-> max]

Rectangle_new(min_x, min_y, max_x, max_y) ==
    Rectangle_new_coordinates(Vec2_new(min_x, min_y), Vec2_new(max_x, max_y))

\* a new_dimensions that takes the width and height for the max corner
Mut_new_dimensions_absolute(min, width, height) ==
    Rectangle_new_coordinates(min, Vec2_new(width, height))

Rectangle_new_dimensions(min, width, height) ==
    Rectangle_new_coordinates(min, Vec2_new(min.x + width, min.y + height))

(***************************************************************************)
(* Rectangle: getters                                                      *)
(***************************************************************************)
Rectangle_min(r) == r.min

Rectangle_max(r) == r.max

Rectangle_x(r) == r.min.x

Rectangle_min_x(r) == r.min.x

Rectangle_max_x(r) == r.max.x

Rectangle_y(r) == r.min.y

Rectangle_min_y(r) == r.min.y

Rectangle_max_y(r) == r.max.y

Rectangle_width(r) == r.max.x - r.min.x

Rectangle_height(r) == r.max.y - r.min.y

Rectangle_size(r) == Vec2_new(Rectangle_width(r), Rectangle_height(r))

Rectangle_position(r) == r.min

Rectangle_center(r) ==
    Vec2_new(MulHalf(r.min.x + r.max.x), MulHalf(r.min.y + r.max.y))

(***************************************************************************)
(* Rectangle: setters.  Each operator is the value of *self after the call.*)
(***************************************************************************)
Rectangle_set_min(r, min) == [r EXCEPT !.min = min]

\* a set_max that refuses to go below min
Mut_set_max_clamped(r, max) ==
    [r EXCEPT !.max = Vec2_new(IF max.x < r.min.x THEN r.min.x ELSE max.x,
                               IF max.y < r.min.y THEN r.min.y ELSE max.y)]

Rectangle_set_max(r, max) == [r EXCEPT !.max = max]

\* a set_x that forgets to move max.x
Mut_set_x_keeps_max(r, x) == [r EXCEPT !.min.x = x]

\* self.max.x += x - self.min.x;  self.min.x = x;
Rectangle_set_x(r, x) ==
    LET r1 == [r EXCEPT !.max.x = r.max.x + (x - r.min.x)]
    IN  [r1 EXCEPT !.min.x = x]

\* a set_min_x that translates like set_x
Mut_set_min_x_translates(r, x) ==
    [r EXCEPT !.max.x = r.max.x + (x - r.min.x), !.min.x = x]

Rectangle_set_min_x(r, x) == [r EXCEPT !.min.x = x]

Rectangle_set_max_x(r, x) == [r EXCEPT !.max.x = x]

\* a set_y that forgets to move max.y
Mut_set_y_keeps_max(r, y) == [r EXCEPT !.min.y = y]

\* self.max.y += y - self.min.y;  self.min.y = y;
Rectangle_set_y(r, y) ==
    LET r1 == [r EXCEPT !.max.y = r.max.y + (y - r.min.y)]
    IN  [r1 EXCEPT !.min.y = y]

Rectangle_set_min_y(r, y) == [r EXCEPT !.min.y = y]

Rectangle_set_max_y(r, y) == [r EXCEPT !.max.y = y]

\* a set_width that takes the width for the coordinate
Mut_set_width_absolute(r, width) == [r EXCEPT !.max.x = width]

Rectangle_set_width(r, width) == [r EXCEPT !.max.x = r.min.x + width]

Rectangle_set_height(r, height) == [r EXCEPT !.max.y = r.min.y + height]

\* a set_size that adds the size to max
Mut_set_size_grows(r, size) ==
    [r EXCEPT !.max = Vec2_new(r.max.x + size.x, r.max.y + size.y)]

Rectangle_set_size(r, size) ==
    Rectangle_set_height(Rectangle_set_width(r, size.x), size.y)

\* a set_position that writes min only
Mut_set_position_min_only(r, position) == [r EXCEPT !.min = position]

Rectangle_set_position(r, position) ==
    Rectangle_set_y(Rectangle_set_x(r, position.x), position.y)

\* a set_center that subtracts the whole size instead of half of it
Mut_set_center_full_size(r, center) ==
    Rectangle_set_position(r, Vec2_new(center.x - Rectangle_width(r),
                                       center.y - Rectangle_height(r)))

Rectangle_set_center(r, center) ==
    LET half_width == MulHalf(Rectangle_width(r))
        half_height == MulHalf(Rectangle_height(r))
    IN  Rectangle_set_position(r, Vec2_new(center.x - half_width,
                                           center.y - half_height))

(***************************************************************************)
(* The rectangle state machine                                             *)
(***************************************************************************)
\* the setters that translate the rectangle
Translating == {"set_x", "set_y", "set_position", "set_center"}

InWindow(r) ==
    /\ r.min.x \in Coords /\ r.min.y \in Coords
    /\ Rectangle_width(r) \in Coords /\ Rectangle_height(r) \in Coords

NoVec == Vec2_new(0, 0)

RectCall(name, s, v, r2) ==
    /\ InWindow(r2)
    /\ rect' = r2
    /\ rect_op' = [name |-> name, s |-> s, v |-> v, w |-> NoVec]
    /\ rect_size0' = IF name \in Translating THEN rect_size0
                     ELSE Rectangle_size(r2)
    /\ rect_chain' = (name \in Translating /\ rect_op.name \in Translating)
    /\ rect_same' = (r2 = rect)
    /\ UNCHANGED <<ray_vars, ord_vars, line_vars, circle_vars, tri_vars, point_vars, got>>

SetMin == \E v \in Points : RectCall("set_min", 0, v, Rectangle_set_min(rect, v))

SetMax == \E v \in Points : RectCall("set_max", 0, v, Rectangle_set_max(rect, v))

SetX == \E x \in Scalars : RectCall("set_x", x, NoVec, Rectangle_set_x(rect, x))

SetMinX == \E x \in Scalars : RectCall("set_min_x", x, NoVec, Rectangle_set_min_x(rect, x))

SetMaxX == \E x \in Scalars : RectCall("set_max_x", x, NoVec, Rectangle_set_max_x(rect, x))

SetY == \E y \in Scalars : RectCall("set_y", y, NoVec, Rectangle_set_y(rect, y))

SetMinY == \E y \in Scalars : RectCall("set_min_y", y, NoVec, Rectangle_set_min_y(rect, y))

SetMaxY == \E y \in Scalars : RectCall("set_max_y", y, NoVec, Rectangle_set_max_y(rect, y))

SetWidth == \E w \in Scalars : RectCall("set_width", w, NoVec, Rectangle_set_width(rect, w))

SetHeight == \E h \in Scalars : RectCall("set_height", h, NoVec, Rectangle_set_height(rect, h))

SetSize == \E v \in Points : RectCall("set_size", 0, v, Rectangle_set_size(rect, v))

SetPosition ==
    \E v \in Points : RectCall("set_position", 0, v, Rectangle_set_position(rect, v))

SetCenter ==
    /\ OnGridHalf(Rectangle_width(rect))
    /\ OnGridHalf(Rectangle_height(rect))
    /\ \E v \in Points :
          RectCall("set_center", 0, v, Rectangle_set_center(rect, v))

RectNext ==
    \/ SetMin \/ SetMax
    \/ SetX \/ SetMinX \/ SetMaxX
    \/ SetY \/ SetMinY \/ SetMaxY
    \/ SetWidth \/ SetHeight \/ SetSize
    \/ SetPosition \/ SetCenter

\* impl Default for Rectangle
Rectangle_default == Rectangle_new_coordinates(Vec2_new(0, 0), Vec2_new(1, 1))

(***************************************************************************)
(* glam::Vec2 off the grid.  Ray and Line normalise vectors, and a unit     *)
(* vector such as (1/sqrt 2, 1/sqrt 2) is not a grid value.  Their Vec2     *)
(* values are kept exact: the record [bx, by, sx, sy, n] stands for         *)
(*      (bx + sx / sqrt n,  by + sy / sqrt n)                               *)
(* with integers bx, by, sx, sy and n >= 1.  Canon picks the one record of  *)
(* each value, so that = on records is = on vectors.  The operators follow  *)
(* the contract of the glam operators the code calls (+, -,                 *)
(* normalize_or_zero, max_element) in exact arithmetic; f32 rounding,       *)
(* overflow and underflow are not modelled.                                 *)
(***************************************************************************)
Abs(a) == IF a < 0 THEN 0 - a ELSE a

IsSquare(n) == \E r \in 1..n : r * r = n

Root(n) == CHOOSE r \in 1..n : r * r = n

\* the largest g with g | x, g | y, g*g | n
MaxDiv(x, y, n) ==
    LET D == {g \in 1..n : x % g = 0 /\ y % g = 0 /\ n % (g * g) = 0}
    IN  CHOOSE g \in D : \A h \in D : h <= g

RawVec(bx, by, sx, sy, n) == [bx |-> bx, by |-> by, sx |-> sx, sy |-> sy, n |-> n]

\* Vec2 { x, y } with grid components
GridVec(x, y) == RawVec(x, y, 0, 0, 1)

Canon(bx, by, sx, sy, n) ==
    IF sx = 0 /\ sy = 0 THEN GridVec(bx, by)
    ELSE IF IsSquare(n)
    THEN \* a rational vector: (r*b + s) / r, in lowest terms
         LET r == Root(n)
             tx == r * bx + sx
             ty == r * by + sy
             g == MaxDiv(tx, ty, n)
         IN  IF g = r THEN GridVec(tx \div g, ty \div g)
             ELSE RawVec(0, 0, tx \div g, ty \div g, (r \div g) * (r \div g))
    ELSE LET g == MaxDiv(sx, sy, n)
         IN  RawVec(bx, by, sx \div g, sy \div g, n \div (g * g))

Vec2_ZERO == GridVec(0, 0)

Vec2_ONE == GridVec(1, 1)

\* self + rhs
Vec2_add(v, w) ==
    CASE v.n = w.n -> Canon(v.bx + w.bx, v.by + w.by, v.sx + w.sx, v.sy + w.sy, v.n)
      [] v.n # w.n /\ v.n = 1 -> Canon(v.bx + w.bx, v.by + w.by, w.sx, w.sy, w.n)
      [] v.n # w.n /\ w.n = 1 -> Canon(v.bx + w.bx, v.by + w.by, v.sx, v.sy, v.n)

\* -self
Vec2_neg(v) == RawVec(0 - v.bx, 0 - v.by, 0 - v.sx, 0 - v.sy, v.n)

\* self - rhs
Vec2_sub(v, w) == Vec2_add(v, Vec2_neg(w))

\* self * rhs, rhs a grid scalar
Vec2_mul(v, k) == Canon(k * v.bx, k * v.by, k * v.sx, k * v.sy, v.n)

\* b + s / sqrt n >= 0
NonNeg(b, s, n) ==
    IF b >= 0 /\ s >= 0 THEN TRUE
    ELSE IF b <= 0 /\ s <= 0 THEN FALSE
    ELSE IF b > 0 THEN b * b * n >= s * s
    ELSE s * s >= b * b * n

\* the f32 components of a vector: [b, s, n] stands for b + s / sqrt n
Vec2_x(v) == [b |-> v.bx, s |-> v.sx, n |-> v.n]

Vec2_y(v) == [b |-> v.by, s |-> v.sy, n |-> v.n]

GridScalar(k) == [b |-> k, s |-> 0, n |-> 1]

\* a >= c on f32 values
ScalarGeq(a, c) ==
    CASE a.n = c.n -> NonNeg(a.b - c.b, a.s - c.s, a.n)
      [] a.n # c.n /\ a.s = 0 -> NonNeg(a.b - c.b, 0 - c.s, c.n)
      [] a.n # c.n /\ a.s # 0 /\ c.s = 0 -> NonNeg(a.b - c.b, a.s, a.n)

\* self.x.max(self.y)
max_element(v) ==
    IF NonNeg(v.bx - v.by, v.sx - v.sy, v.n) THEN Vec2_x(v) ELSE Vec2_y(v)

\* the integer vector a vector is a positive multiple of
\* (defined when the vector is on the grid or has no grid part)
Numer(v) ==
    CASE v.n = 1 -> <<v.bx, v.by>>
      [] v.n # 1 /\ v.bx = 0 /\ v.by = 0 -> <<v.sx, v.sy>>

\* self * self.length_recip() when the length is not zero, else ZERO
normalize_or_zero(v) ==
    IF v = Vec2_ZERO THEN Vec2_ZERO
    ELSE LET m == Numer(v)
         IN  Canon(0, 0, m[1], m[2], m[1] * m[1] + m[2] * m[2])

\* length() == 1.  A vector with a grid part and an irrational part has an
\* irrational or larger length.
IsUnit(v) ==
    CASE v.n = 1 -> v.bx * v.bx + v.by * v.by = 1
      [] v.n # 1 /\ v.bx = 0 /\ v.by = 0 -> v.sx * v.sx + v.sy * v.sy = v.n
      [] OTHER -> FALSE

\* u is a positive multiple of d
SameDirection(u, d) ==
    LET a == Numer(u)
        b == Numer(d)
    IN  /\ a[1] * b[2] - a[2] * b[1] = 0
        /\ a[1] * b[1] + a[2] * b[2] > 0

(***************************************************************************)
(* Ray                                                                     *)
(***************************************************************************)
Ray_new_offset(origin, offset) ==
    [origin |-> origin, direction |-> normalize_or_zero(Vec2_sub(offset, origin))]

\* a new_direction that stores the direction as it is
Mut_ray_new_direction_raw(origin, direction) ==
    [origin |-> origin, direction |-> direction]

Ray_new_direction(origin, direction) ==
    [origin |-> origin, direction |-> normalize_or_zero(direction)]

Ray_origin(r) == r.origin

\* an offset() that forgets the origin
Mut_offset_is_direction(r) == r.direction

Ray_offset(r) == Vec2_add(r.direction, r.origin)

Ray_direction(r) == r.direction

Ray_set_origin(r, origin) == [r EXCEPT !.origin = origin]

\* a set_offset that stores the difference as it is
Mut_set_offset_raw(r, offset) ==
    [r EXCEPT !.direction = Vec2_sub(offset, r.origin)]

\* a set_offset that aims from the zero vector instead of the origin
Mut_set_offset_ignores_origin(r, offset) ==
    [r EXCEPT !.direction = normalize_or_zero(offset)]

Ray_set_offset(r, offset) ==
    [r EXCEPT !.direction = normalize_or_zero(Vec2_sub(offset, r.origin))]

\* a set_direction that stores its argument as it is
Mut_set_direction_raw(r, direction) == [r EXCEPT !.direction = direction]

Ray_set_direction(r, direction) ==
    [r EXCEPT !.direction = normalize_or_zero(direction)]

Ray_UP == [origin |-> Vec2_ZERO, direction |-> GridVec(0, 1)]

Ray_RIGHT == [origin |-> Vec2_ZERO, direction |-> GridVec(1, 0)]

Ray_DOWN == [origin |-> Vec2_ZERO, direction |-> GridVec(0, 0 - 1)]

Ray_LEFT == [origin |-> Vec2_ZERO, direction |-> GridVec(0 - 1, 0)]

\* impl Default for Ray
Ray_default == Ray_new_offset(Vec2_ZERO, Vec2_ONE)

(***************************************************************************)
(* The ray state machine                                                   *)
(***************************************************************************)
\* the Vec2 arguments of the constructors and setters
GridPoints == {GridVec(x, y) : x \in Scalars, y \in Scalars}

RayConsts == [UP |-> Ray_UP, RIGHT |-> Ray_RIGHT, DOWN |-> Ray_DOWN, LEFT |-> Ray_LEFT]

RayCall(name, v, r2) ==
    /\ ray' = r2
    /\ ray_old' = ray
    /\ ray_op' = [name |-> name, o |-> ray.origin, v |-> v]
    /\ UNCHANGED <<rect_vars, ord_vars, line_vars, circle_vars, tri_vars, point_vars, got>>

RaySetOrigin == \E o \in GridPoints : RayCall("set_origin", o, Ray_set_origin(ray, o))

\* the offsets given: the grid points and the ray's own offset()
RaySetOffset ==
    \E p \in GridPoints \cup {Ray_offset(ray)} :
        RayCall("set_offset", p, Ray_set_offset(ray, p))

\* the directions given: the grid points and the ray's own direction()
RaySetDirection ==
    \E d \in GridPoints \cup {Ray_direction(ray)} :
        RayCall("set_direction", d, Ray_set_direction(ray, d))

RayNext == RaySetOrigin \/ RaySetOffset \/ RaySetDirection

(***************************************************************************)
(* Two copies of one ray, and the calls set_origin(o2) and set_offset(p)   *)
(* made on them in the two orders.                                         *)
(***************************************************************************)
\* ord_a: set_origin(o2) ...
OrdASetOrigin ==
    /\ ord_pc.a = 0
    /\ ord_a' = Ray_set_origin(ord_a, ord_in.o2)
    /\ ord_pc' = [ord_pc EXCEPT !.a = 1]
    /\ UNCHANGED <<ord_b, ord_in, rect_vars, ray_vars, line_vars, circle_vars,
                   tri_vars, point_vars, got>>

\* ... then set_offset(p)
OrdASetOffset ==
    /\ ord_pc.a = 1
    /\ ord_a' = Ray_set_offset(ord_a, ord_in.p)
    /\ ord_pc' = [ord_pc EXCEPT !.a = 2]
    /\ UNCHANGED <<ord_b, ord_in, rect_vars, ray_vars, line_vars, circle_vars,
                   tri_vars, point_vars, got>>

\* ord_b: set_offset(p) ...
OrdBSetOffset ==
    /\ ord_pc.b = 0
    /\ ord_b' = Ray_set_offset(ord_b, ord_in.p)
    /\ ord_pc' = [ord_pc EXCEPT !.b = 1]
    /\ UNCHANGED <<ord_a, ord_in, rect_vars, ray_vars, line_vars, circle_vars,
                   tri_vars, point_vars, got>>

\* ... then set_origin(o2)
OrdBSetOrigin ==
    /\ ord_pc.b = 1
    /\ ord_b' = Ray_set_origin(ord_b, ord_in.o2)
    /\ ord_pc' = [ord_pc EXCEPT !.b = 2]
    /\ UNCHANGED <<ord_a, ord_in, rect_vars, ray_vars, line_vars, circle_vars,
                   tri_vars, point_vars, got>>

OrdNext == OrdASetOrigin \/ OrdASetOffset \/ OrdBSetOffset \/ OrdBSetOrigin

(***************************************************************************)
(* Line                                                                    *)
(***************************************************************************)
Line_new(origin, end) == [origin |-> origin, end |-> end]

\* a new_direction that does not normalise the direction
Mut_new_direction_raw(origin, direction, distance) ==
    [origin |-> origin, end |-> Vec2_add(origin, Vec2_mul(direction, distance))]

Line_new_direction(origin, direction, distance) ==
    [origin |-> origin,
     end |-> Vec2_add(origin, Vec2_mul(normalize_or_zero(direction), distance))]

Line_origin(l) == l.origin

Line_end(l) == l.end

Line_set_origin(l, origin) == [l EXCEPT !.origin = origin]

Line_set_end(l, offset) == [l EXCEPT !.end = offset]

Line_direction(l) == Vec2_sub(Line_end(l), Line_origin(l))

\* a length() that takes the smaller component
Mut_length_min_element(l) ==
    LET d == Line_direction(l)
    IN  IF NonNeg(d.bx - d.by, d.sx - d.sy, d.n) THEN Vec2_y(d) ELSE Vec2_x(d)

Line_length(l) == max_element(Line_direction(l))

Line_UP == [origin |-> Vec2_ZERO, end |-> GridVec(0, 1)]

Line_RIGHT == [origin |-> Vec2_ZERO, end |-> GridVec(1, 0)]

Line_DOWN == [origin |-> Vec2_ZERO, end |-> GridVec(0, 0 - 1)]

Line_LEFT == [origin |-> Vec2_ZERO, end |-> GridVec(0 - 1, 0)]

\* impl Default for Line
Line_default == [origin |-> Vec2_ZERO, end |-> Vec2_ONE]

(***************************************************************************)
(* The line state machine                                                  *)
(***************************************************************************)
LineConsts == [UP |-> Line_UP, RIGHT |-> Line_RIGHT, DOWN |-> Line_DOWN, LEFT |-> Line_LEFT]

\* the end points given to Line::new and set_end reach twice as far as the
\* origins, so that the scenario's line (0,0) -> (2,0) is among the lines
EndPoints == {GridVec(2 * p.bx, 2 * p.by) : p \in GridPoints} \cup GridPoints

LineCall(name, v, l2) ==
    /\ line' = l2
    /\ line_op' = [name |-> name, o |-> l2.origin, v |-> v, k |-> 0]
    /\ UNCHANGED <<rect_vars, ray_vars, ord_vars, circle_vars, tri_vars, point_vars, got>>

LineSetOrigin == \E o \in GridPoints : LineCall("set_origin", o, Line_set_origin(line, o))

LineSetEnd == \E e \in EndPoints : LineCall("set_end", e, Line_set_end(line, e))

LineNext == LineSetOrigin \/ LineSetEnd

(***************************************************************************)
(* Circle.  The radius is a grid scalar; diameter * 0.5 is exact, and the   *)
(* diameters given to new_diameter and set_diameter are those whose half is *)
(* on the grid.                                                             *)
(***************************************************************************)
Circle_new(center, radius) == [center |-> center, radius |-> radius]

Circle_new_diameter(center, diameter) == Circle_new(center, MulHalf(diameter))

Circle_center(c) == c.center

Circle_radius(c) == c.radius

Circle_diameter(c) == c.radius * 2

Circle_set_center(c, center) == [c EXCEPT !.center = center]

Circle_set_radius(c, radius) == [c EXCEPT !.radius = radius]

\* a set_diameter that stores the diameter as the radius
Mut_set_diameter_raw(c, diameter) == [c EXCEPT !.radius = diameter]

Circle_set_diameter(c, diameter) == [c EXCEPT !.radius = MulHalf(diameter)]

\* impl Default for Circle
Circle_default == [center |-> Vec2_new(0, 0), radius |-> 1]

(***************************************************************************)
(* The circle state machine                                                *)
(***************************************************************************)
\* the diameters whose half is a grid scalar
Diameters == {2 * r : r \in Scalars}

CircleCall(name, s, v, c2) ==
    /\ circle' = c2
    /\ circle_op' = [name |-> name, s |-> s, v |-> v]
    /\ UNCHANGED <<rect_vars, ray_vars, ord_vars, line_vars, tri_vars, point_vars, got>>

CircleSetCenter ==
    \E v \in Points : CircleCall("set_center", 0, v, Circle_set_center(circle, v))

CircleSetRadius ==
    \E r \in Scalars : CircleCall("set_radius", r, NoVec, Circle_set_radius(circle, r))

CircleSetDiameter ==
    \E d \in Diameters :
        CircleCall("set_diameter", d, NoVec, Circle_set_diameter(circle, d))

CircleNext == CircleSetCenter \/ CircleSetRadius \/ CircleSetDiameter

(***************************************************************************)
(* Triangle                                                                *)
(***************************************************************************)
Triangle_new(coordinate1, coordinate2, coordinate3) ==
    [coordinate1 |-> coordinate1, coordinate2 |-> coordinate2,
     coordinate3 |-> coordinate3]

Triangle_coordinate1(t) == t.coordinate1

Triangle_coordinate2(t) == t.coordinate2

Triangle_coordinate3(t) == t.coordinate3

Triangle_set_coordinate1(t, coordinate1) == [t EXCEPT !.coordinate1 = coordinate1]

\* a set_coordinate2 that writes coordinate1
Mut_set_coordinate2_writes_first(t, coordinate2) ==
    [t EXCEPT !.coordinate1 = coordinate2]

Triangle_set_coordinate2(t, coordinate2) == [t EXCEPT !.coordinate2 = coordinate2]

Triangle_set_coordinate3(t, coordinate3) == [t EXCEPT !.coordinate3 = coordinate3]

\* impl Default for Triangle
Triangle_default ==
    [coordinate1 |-> Vec2_new(1, 1), coordinate2 |-> Vec2_new(0, 0),
     coordinate3 |-> Vec2_new(1, 0)]

(***************************************************************************)
(* The triangle state machine                                              *)
(***************************************************************************)
TriCall(name, v, t2) ==
    /\ tri' = t2
    /\ tri_op' = [name |-> name, v |-> v]
    /\ UNCHANGED <<rect_vars, ray_vars, ord_vars, line_vars, circle_vars, point_vars, got>>

TriSetCoordinate1 ==
    \E v \in Points : TriCall("set_coordinate1", v, Triangle_set_coordinate1(tri, v))

TriSetCoordinate2 ==
    \E v \in Points : TriCall("set_coordinate2", v, Triangle_set_coordinate2(tri, v))

TriSetCoordinate3 ==
    \E v \in Points : TriCall("set_coordinate3", v, Triangle_set_coordinate3(tri, v))

TriNext == TriSetCoordinate1 \/ TriSetCoordinate2 \/ TriSetCoordinate3

(***************************************************************************)
(* Point                                                                   *)
(***************************************************************************)
Point_new(coordinate) == [coordinate |-> coordinate]

Point_coordinate(p) == p.coordinate

Point_set_coordinate(p, coordinate) == [p EXCEPT !.coordinate = coordinate]

Point_ZERO == [coordinate |-> Vec2_new(0, 0)]

Point_ONE == [coordinate |-> Vec2_new(1, 1)]

Point_NEG_ONE == [coordinate |-> Vec2_new(0 - 1, 0 - 1)]

\* impl Default for Point
Point_default == [coordinate |-> Vec2_new(0, 0)]

(***************************************************************************)
(* The point state machine                                                 *)
(***************************************************************************)
PointConsts == [ZERO |-> Point_ZERO, ONE |-> Point_ONE, NEG_ONE |-> Point_NEG_ONE]

PointSetCoordinate ==
    \E v \in Points :
        /\ point' = Point_set_coordinate(point, v)
        /\ point_op' = [name |-> "set_coordinate", v |-> v]
        /\ UNCHANGED <<rect_vars, ray_vars, ord_vars, line_vars, circle_vars, tri_vars, got>>

PointNext == PointSetCoordinate

(***************************************************************************)
(* Specifications: one per shape.  A program that works on one shape       *)
(* leaves the others as their Default impl built them, and got as it is    *)
(* before the first getter call.                                           *)
(***************************************************************************)
NoGot == [shape |-> "none", name |-> "none", ret |-> NoVec, again |-> FALSE]

\* a rectangle built by Rectangle::new, new_coordinates or new_dimensions
RectInit ==
    /\ \E x \in Coords, y \in Coords, w \in Coords, h \in Coords :
          LET min == Vec2_new(x, y)
              max == Vec2_new(x + w, y + h)
          IN  \/ /\ rect = Rectangle_new(min.x, min.y, max.x, max.y)
                  /\ rect_op = [name |-> "new", s |-> 0, v |-> min, w |-> max]
              \/ /\ rect = Rectangle_new_coordinates(min, max)
                  /\ rect_op = [name |-> "new_coordinates", s |-> 0, v |-> min, w |-> max]
              \/ /\ rect = Rectangle_new_dimensions(min, w, h)
                  /\ rect_op = [name |-> "new_dimensions", s |-> 0, v |-> min,
                                w |-> Vec2_new(w, h)]
    /\ rect_size0 = Rectangle_size(rect)
    /\ rect_chain = FALSE
    /\ rect_same = FALSE
    /\ ray = Ray_default
    /\ ray_old = ray
    /\ ray_op = [name |-> "default", o |-> Vec2_ZERO, v |-> Vec2_ONE]
    /\ ord_a = Ray_default
    /\ ord_b = Ray_default
    /\ ord_in = [o1 |-> Vec2_ZERO, o2 |-> Vec2_ZERO, p |-> Vec2_ONE]
    /\ ord_pc = [a |-> 2, b |-> 2]
    /\ line = Line_default
    /\ line_op = [name |-> "default", o |-> Vec2_ZERO, v |-> Vec2_ONE, k |-> 0]
    /\ circle = Circle_default
    /\ circle_op = [name |-> "default", s |-> 1, v |-> NoVec]
    /\ tri = Triangle_default
    /\ tri_op = [name |-> "default", v |-> NoVec]
    /\ point = Point_default
    /\ point_op = [name |-> "default", v |-> NoVec]
    /\ got = NoGot

\* a ray built by Ray::new_offset, Ray::new_direction or taken from a const
RayInit ==
    /\ \/ \E o \in GridPoints, p \in GridPoints :
            /\ ray = Ray_new_offset(o, p)
            /\ ray_op = [name |-> "new_offset", o |-> o, v |-> p]
       \/ \E o \in GridPoints, d \in GridPoints :
            /\ ray = Ray_new_direction(o, d)
            /\ ray_op = [name |-> "new_direction", o |-> o, v |-> d]
       \/ \E c \in DOMAIN RayConsts :
            /\ ray = RayConsts[c]
            /\ ray_op = [name |-> c, o |-> Vec2_ZERO, v |-> RayConsts[c].direction]
    /\ ray_old = ray
    /\ rect = Rectangle_default
    /\ rect_op = [name |-> "default", s |-> 0, v |-> NoVec, w |-> NoVec]
    /\ rect_size0 = Rectangle_size(rect)
    /\ rect_chain = FALSE
    /\ rect_same = FALSE
    /\ ord_a = Ray_default
    /\ ord_b = Ray_default
    /\ ord_in = [o1 |-> Vec2_ZERO, o2 |-> Vec2_ZERO, p |-> Vec2_ONE]
    /\ ord_pc = [a |-> 2, b |-> 2]
    /\ line = Line_default
    /\ line_op = [name |-> "default", o |-> Vec2_ZERO, v |-> Vec2_ONE, k |-> 0]
    /\ circle = Circle_default
    /\ circle_op = [name |-> "default", s |-> 1, v |-> NoVec]
    /\ tri = Triangle_default
    /\ tri_op = [name |-> "default", v |-> NoVec]
    /\ point = Point_default
    /\ point_op = [name |-> "default", v |-> NoVec]
    /\ got = NoGot

\* two copies of a ray built by Ray::new_offset, and the arguments o2 and p
OrdInit ==
    /\ \E o1 \in GridPoints, q \in GridPoints, o2 \in GridPoints, p \in GridPoints :
          /\ ord_a = Ray_new_offset(o1, q)
          /\ ord_in = [o1 |-> o1, o2 |-> o2, p |-> p]
    /\ ord_b = ord_a
    /\ ord_pc = [a |-> 0, b |-> 0]
    /\ rect = Rectangle_default
    /\ rect_op = [name |-> "default", s |-> 0, v |-> NoVec, w |-> NoVec]
    /\ rect_size0 = Rectangle_size(rect)
    /\ rect_chain = FALSE
    /\ rect_same = FALSE
    /\ ray = Ray_default
    /\ ray_old = ray
    /\ ray_op = [name |-> "default", o |-> Vec2_ZERO, v |-> Vec2_ONE]
    /\ line = Line_default
    /\ line_op = [name |-> "default", o |-> Vec2_ZERO, v |-> Vec2_ONE, k |-> 0]
    /\ circle = Circle_default
    /\ circle_op = [name |-> "default", s |-> 1, v |-> NoVec]
    /\ tri = Triangle_default
    /\ tri_op = [name |-> "default", v |-> NoVec]
    /\ point = Point_default
    /\ point_op = [name |-> "default", v |-> NoVec]
    /\ got = NoGot

\* a line built by Line::new, Line::new_direction or taken from a const
LineInit ==
    /\ \/ \E o \in GridPoints, e \in EndPoints :
            /\ line = Line_new(o, e)
            /\ line_op = [name |-> "new", o |-> o, v |-> e, k |-> 0]
       \/ \E o \in GridPoints, d \in GridPoints, k \in Scalars :
            /\ line = Line_new_direction(o, d, k)
            /\ line_op = [name |-> "new_direction", o |-> o, v |-> d, k |-> k]
       \/ \E c \in DOMAIN LineConsts :
            /\ line = LineConsts[c]
            /\ line_op = [name |-> c, o |-> Vec2_ZERO, v |-> LineConsts[c].end, k |-> 0]
    /\ rect = Rectangle_default
    /\ rect_op = [name |-> "default", s |-> 0, v |-> NoVec, w |-> NoVec]
    /\ rect_size0 = Rectangle_size(rect)
    /\ rect_chain = FALSE
    /\ rect_same = FALSE
    /\ ray = Ray_default
    /\ ray_old = ray
    /\ ray_op = [name |-> "default", o |-> Vec2_ZERO, v |-> Vec2_ONE]
    /\ ord_a = Ray_default
    /\ ord_b = Ray_default
    /\ ord_in = [o1 |-> Vec2_ZERO, o2 |-> Vec2_ZERO, p |-> Vec2_ONE]
    /\ ord_pc = [a |-> 2, b |-> 2]
    /\ circle = Circle_default
    /\ circle_op = [name |-> "default", s |-> 1, v |-> NoVec]
    /\ tri = Triangle_default
    /\ tri_op = [name |-> "default", v |-> NoVec]
    /\ point = Point_default
    /\ point_op = [name |-> "default", v |-> NoVec]
    /\ got = NoGot

\* a circle built by Circle::new or Circle::new_diameter
CircleInit ==
    /\ \/ \E c \in Points, r \in Scalars :
            /\ circle = Circle_new(c, r)
            /\ circle_op = [name |-> "new", s |-> r, v |-> c]
       \/ \E c \in Points, d \in Diameters :
            /\ circle = Circle_new_diameter(c, d)
            /\ circle_op = [name |-> "new_diameter", s |-> d, v |-> c]
    /\ rect = Rectangle_default
    /\ rect_op = [name |-> "default", s |-> 0, v |-> NoVec, w |-> NoVec]
    /\ rect_size0 = Rectangle_size(rect)
    /\ rect_chain = FALSE
    /\ rect_same = FALSE
    /\ ray = Ray_default
    /\ ray_old = ray
    /\ ray_op = [name |-> "default", o |-> Vec2_ZERO, v |-> Vec2_ONE]
    /\ ord_a = Ray_default
    /\ ord_b = Ray_default
    /\ ord_in = [o1 |-> Vec2_ZERO, o2 |-> Vec2_ZERO, p |-> Vec2_ONE]
    /\ ord_pc = [a |-> 2, b |-> 2]
    /\ line = Line_default
    /\ line_op = [name |-> "default", o |-> Vec2_ZERO, v |-> Vec2_ONE, k |-> 0]
    /\ tri = Triangle_default
    /\ tri_op = [name |-> "default", v |-> NoVec]
    /\ point = Point_default
    /\ point_op = [name |-> "default", v |-> NoVec]
    /\ got = NoGot

\* a triangle built by Triangle::new
TriInit ==
    /\ \E c1 \in Points, c2 \in Points, c3 \in Points :
          tri = Triangle_new(c1, c2, c3)
    /\ tri_op = [name |-> "new", v |-> NoVec]
    /\ rect = Rectangle_default
    /\ rect_op = [name |-> "default", s |-> 0, v |-> NoVec, w |-> NoVec]
    /\ rect_size0 = Rectangle_size(rect)
    /\ rect_chain = FALSE
    /\ rect_same = FALSE
    /\ ray = Ray_default
    /\ ray_old = ray
    /\ ray_op = [name |-> "default", o |-> Vec2_ZERO, v |-> Vec2_ONE]
    /\ ord_a = Ray_default
    /\ ord_b = Ray_default
    /\ ord_in = [o1 |-> Vec2_ZERO, o2 |-> Vec2_ZERO, p |-> Vec2_ONE]
    /\ ord_pc = [a |-> 2, b |-> 2]
    /\ line = Line_default
    /\ line_op = [name |-> "default", o |-> Vec2_ZERO, v |-> Vec2_ONE, k |-> 0]
    /\ circle = Circle_default
    /\ circle_op = [name |-> "default", s |-> 1, v |-> NoVec]
    /\ point = Point_default
    /\ point_op = [name |-> "default", v |-> NoVec]
    /\ got = NoGot

\* a point built by Point::new or taken from a const
PointInit ==
    /\ \/ \E v \in Points :
            /\ point = Point_new(v)
            /\ point_op = [name |-> "new", v |-> v]
       \/ \E c \in DOMAIN PointConsts :
            /\ point = PointConsts[c]
            /\ point_op = [name |-> c, v |-> PointConsts[c].coordinate]
    /\ rect = Rectangle_default
    /\ rect_op = [name |-> "default", s |-> 0, v |-> NoVec, w |-> NoVec]
    /\ rect_size0 = Rectangle_size(rect)
    /\ rect_chain = FALSE
    /\ rect_same = FALSE
    /\ ray = Ray_default
    /\ ray_old = ray
    /\ ray_op = [name |-> "default", o |-> Vec2_ZERO, v |-> Vec2_ONE]
    /\ ord_a = Ray_default
    /\ ord_b = Ray_default
    /\ ord_in = [o1 |-> Vec2_ZERO, o2 |-> Vec2_ZERO, p |-> Vec2_ONE]
    /\ ord_pc = [a |-> 2, b |-> 2]
    /\ line = Line_default
    /\ line_op = [name |-> "default", o |-> Vec2_ZERO, v |-> Vec2_ONE, k |-> 0]
    /\ circle = Circle_default
    /\ circle_op = [name |-> "default", s |-> 1, v |-> NoVec]
    /\ tri = Triangle_default
    /\ tri_op = [name |-> "default", v |-> NoVec]
    /\ got = NoGot

SpecRectangle == RectInit /\ [][RectNext]_vars

SpecRay == RayInit /\ [][RayNext]_vars

SpecRayOrder == OrdInit /\ [][OrdNext]_vars

SpecLine == LineInit /\ [][LineNext]_vars

SpecCircle == CircleInit /\ [][CircleNext]_vars

(***************************************************************************)
(* Two copies of one rectangle, and two setter calls made on them in the   *)
(* two orders: ord_a takes the first call and then the second, ord_b the   *)
(* second and then the first.  ord_in keeps the rectangle r they started   *)
(* from, the pair of setters and their arguments s1 and s2.                *)
(***************************************************************************)
SetterPairs ==
    [x_width |-> <<"set_x", "set_width">>,
     y_height |-> <<"set_y", "set_height">>,
     x_y |-> <<"set_x", "set_y">>]

\* the call r.name(s) of a scalar setter
RectApply(name, r, s) ==
    CASE name = "set_x" -> Rectangle_set_x(r, s)
      [] name = "set_y" -> Rectangle_set_y(r, s)
      [] name = "set_width" -> Rectangle_set_width(r, s)
      [] name = "set_height" -> Rectangle_set_height(r, s)

RectOrdStep(a2, b2, pc2) ==
    /\ ord_a' = a2
    /\ ord_b' = b2
    /\ ord_pc' = pc2
    /\ UNCHANGED <<ord_in, rect_vars, ray_vars, line_vars, circle_vars, tri_vars,
                   point_vars, got>>

\* ord_a: the first setter ...
RectOrdAFirst ==
    /\ ord_pc.a = 0
    /\ RectOrdStep(RectApply(SetterPairs[ord_in.pair][1], ord_a, ord_in.s1), ord_b,
                   [ord_pc EXCEPT !.a = 1])

\* ... then the second
RectOrdASecond ==
    /\ ord_pc.a = 1
    /\ RectOrdStep(RectApply(SetterPairs[ord_in.pair][2], ord_a, ord_in.s2), ord_b,
                   [ord_pc EXCEPT !.a = 2])

\* ord_b: the second setter ...
RectOrdBSecond ==
    /\ ord_pc.a = 2 /\ ord_pc.b = 0
    /\ RectOrdStep(ord_a, RectApply(SetterPairs[ord_in.pair][2], ord_b, ord_in.s2),
                   [ord_pc EXCEPT !.b = 1])

\* ... then the first
RectOrdBFirst ==
    /\ ord_pc.b = 1
    /\ RectOrdStep(ord_a, RectApply(SetterPairs[ord_in.pair][1], ord_b, ord_in.s1),
                   [ord_pc EXCEPT !.b = 2])

RectOrdNext == RectOrdAFirst \/ RectOrdASecond \/ RectOrdBSecond \/ RectOrdBFirst

\* two copies of a rectangle built by Rectangle::new, a pair of setters and
\* their arguments
RectOrdInit ==
    /\ \E x \in Coords, y \in Coords, w \in Coords, h \in Coords,
          pair \in DOMAIN SetterPairs, s1 \in Scalars, s2 \in Scalars :
          /\ ord_a = Rectangle_new(x, y, x + w, y + h)
          /\ ord_in = [r |-> ord_a, pair |-> pair, s1 |-> s1, s2 |-> s2]
    /\ ord_b = ord_a
    /\ ord_pc = [a |-> 0, b |-> 0]
    /\ rect = Rectangle_default
    /\ rect_op = [name |-> "default", s |-> 0, v |-> NoVec, w |-> NoVec]
    /\ rect_size0 = Rectangle_size(rect)
    /\ rect_chain = FALSE
    /\ rect_same = FALSE
    /\ ray = Ray_default
    /\ ray_old = ray
    /\ ray_op = [name |-> "default", o |-> Vec2_ZERO, v |-> Vec2_ONE]
    /\ line = Line_default
    /\ line_op = [name |-> "default", o |-> Vec2_ZERO, v |-> Vec2_ONE, k |-> 0]
    /\ circle = Circle_default
    /\ circle_op = [name |-> "default", s |-> 1, v |-> NoVec]
    /\ tri = Triangle_default
    /\ tri_op = [name |-> "default", v |-> NoVec]
    /\ point = Point_default
    /\ point_op = [name |-> "default", v |-> NoVec]
    /\ got = NoGot

SpecRectOrder == RectOrdInit /\ [][RectOrdNext]_vars

(***************************************************************************)
(* A program that builds one shape, of any of the six kinds, and calls its *)
(* setters.  The shape in use is the one whose last call is not "default". *)
(***************************************************************************)
ShapesInit == RectInit \/ RayInit \/ LineInit \/ CircleInit \/ TriInit \/ PointInit

ShapesNext ==
    \/ rect_op.name # "default" /\ RectNext
    \/ ray_op.name # "default" /\ RayNext
    \/ line_op.name # "default" /\ LineNext
    \/ circle_op.name # "default" /\ CircleNext
    \/ tri_op.name # "default" /\ TriNext
    \/ point_op.name # "default" /\ PointNext

SpecShapes == ShapesInit /\ [][ShapesNext]_vars

(***************************************************************************)
(* Getters.  A getter takes &self: X_read(self, g) is the call of getter g *)
(* on self, as the pair of *self after the call and the value returned.    *)
(***************************************************************************)
Rectangle_getters ==
    {"min", "max", "x", "min_x", "max_x", "y", "min_y", "max_y", "width",
     "height", "size", "position", "center"}

Rectangle_get(r, g) ==
    CASE g = "min" -> Rectangle_min(r)
      [] g = "max" -> Rectangle_max(r)
      [] g = "x" -> Rectangle_x(r)
      [] g = "min_x" -> Rectangle_min_x(r)
      [] g = "max_x" -> Rectangle_max_x(r)
      [] g = "y" -> Rectangle_y(r)
      [] g = "min_y" -> Rectangle_min_y(r)
      [] g = "max_y" -> Rectangle_max_y(r)
      [] g = "width" -> Rectangle_width(r)
      [] g = "height" -> Rectangle_height(r)
      [] g = "size" -> Rectangle_size(r)
      [] g = "position" -> Rectangle_position(r)
      [] g = "center" -> Rectangle_center(r)

\* a getter that moves min onto max while it reads
Mut_read_moves_min(r, g) ==
    [self |-> Rectangle_set_min(r, r.max), ret |-> Rectangle_get(r, g)]

Rectangle_read(r, g) == [self |-> r, ret |-> Rectangle_get(r, g)]

Ray_getters == {"origin", "offset", "direction"}

Ray_get(r, g) ==
    CASE g = "origin" -> Ray_origin(r)
      [] g = "offset" -> Ray_offset(r)
      [] g = "direction" -> Ray_direction(r)

Ray_read(r, g) == [self |-> r, ret |-> Ray_get(r, g)]

\* self * 0.5, exact when the grid part is even
Vec2_mul_half(v) == Canon(MulHalf(v.bx), MulHalf(v.by), v.sx, v.sy, 4 * v.n)

Line_center(l) == Vec2_mul_half(Vec2_add(Line_origin(l), Line_end(l)))

Line_getters == {"origin", "end", "center", "direction", "length"}

Line_get(l, g) ==
    CASE g = "origin" -> Line_origin(l)
      [] g = "end" -> Line_end(l)
      [] g = "center" -> Line_center(l)
      [] g = "direction" -> Line_direction(l)
      [] g = "length" -> Line_length(l)

Line_read(l, g) == [self |-> l, ret |-> Line_get(l, g)]

Circle_getters == {"center", "radius", "diameter"}

Circle_get(c, g) ==
    CASE g = "center" -> Circle_center(c)
      [] g = "radius" -> Circle_radius(c)
      [] g = "diameter" -> Circle_diameter(c)

Circle_read(c, g) == [self |-> c, ret |-> Circle_get(c, g)]

Triangle_getters == {"coordinate1", "coordinate2", "coordinate3"}

Triangle_get(t, g) ==
    CASE g = "coordinate1" -> Triangle_coordinate1(t)
      [] g = "coordinate2" -> Triangle_coordinate2(t)
      [] g = "coordinate3" -> Triangle_coordinate3(t)

Triangle_read(t, g) == [self |-> t, ret |-> Triangle_get(t, g)]

Point_read(p, g) == [self |-> p, ret |-> Point_coordinate(p)]

\* what a getter call leaves in got; again tells that the call before it was
\* the same getter on the same shape
Got(shape, g, ret) ==
    [shape |-> shape, name |-> g, ret |-> ret,
     again |-> (got.shape = shape /\ got.name = g)]

RectRead ==
    \E g \in Rectangle_getters :
        /\ g = "center" =>
              /\ OnGridHalf(rect.min.x + rect.max.x)
              /\ OnGridHalf(rect.min.y + rect.max.y)
        /\ rect' = Rectangle_read(rect, g).self
        /\ got' = Got("Rectangle", g, Rectangle_read(rect, g).ret)
        /\ UNCHANGED <<rect_op, rect_size0, rect_chain, rect_same, ray_vars,
                       ord_vars, line_vars, circle_vars, tri_vars, point_vars>>

RayRead ==
    \E g \in Ray_getters :
        /\ ray' = Ray_read(ray, g).self
        /\ got' = Got("Ray", g, Ray_read(ray, g).ret)
        /\ UNCHANGED <<ray_old, ray_op, rect_vars, ord_vars, line_vars,
                       circle_vars, tri_vars, point_vars>>

LineRead ==
    \E g \in Line_getters :
        /\ g = "center" =>
              LET sum == Vec2_add(Line_origin(line), Line_end(line))
              IN  OnGridHalf(sum.bx) /\ OnGridHalf(sum.by)
        /\ line' = Line_read(line, g).self
        /\ got' = Got("Line", g, Line_read(line, g).ret)
        /\ UNCHANGED <<line_op, rect_vars, ray_vars, ord_vars, circle_vars,
                       tri_vars, point_vars>>

CircleRead ==
    \E g \in Circle_getters :
        /\ circle' = Circle_read(circle, g).self
        /\ got' = Got("Circle", g, Circle_read(circle, g).ret)
        /\ UNCHANGED <<circle_op, rect_vars, ray_vars, ord_vars, line_vars,
                       tri_vars, point_vars>>

TriRead ==
    \E g \in Triangle_getters :
        /\ tri' = Triangle_read(tri, g).self
        /\ got' = Got("Triangle", g, Triangle_read(tri, g).ret)
        /\ UNCHANGED <<tri_op, rect_vars, ray_vars, ord_vars, line_vars,
                       circle_vars, point_vars>>

PointRead ==
    /\ point' = Point_read(point, "coordinate").self
    /\ got' = Got("Point", "coordinate", Point_read(point, "coordinate").ret)
    /\ UNCHANGED <<point_op, rect_vars, ray_vars, ord_vars, line_vars,
                   circle_vars, tri_vars>>

\* a program that builds one shape, calls its setters and then reads it with
\* any sequence of getter calls
ReadNext ==
    \/ got.name = "none" /\ ShapesNext
    \/ rect_op.name # "default" /\ RectRead
    \/ ray_op.name # "default" /\ RayRead
    \/ line_op.name # "default" /\ LineRead
    \/ circle_op.name # "default" /\ CircleRead
    \/ tri_op.name # "default" /\ TriRead
    \/ point_op.name # "default" /\ PointRead

SpecShapesRead == ShapesInit /\ [][ReadNext]_vars

(***************************************************************************)
(* Claims about Rectangle, checked under SpecRectangle (C18 under          *)
(* SpecRectOrder).  In an action formula rect is the rectangle before the  *)
(* call and rect' the rectangle after it; rect_op' names the call.         *)
(***************************************************************************)

\* C1: after set_x(x): min_x() = x, max_x() = old max_x + (x - old min_x),
\* width() is unchanged, min_y() and max_y() are unchanged; set_y(y) is the
\* same on the y axis; Rectangle::new(0,0,2,2) then set_x(1) has min_x 1,
\* max_x 3 and width 2.  Inverted rectangles are among the states.
C1_SetXSetYTranslate ==
    [][ /\ rect_op'.name = "set_x" =>
              /\ Rectangle_min_x(rect') = rect_op'.s
              /\ Rectangle_max_x(rect') =
                    Rectangle_max_x(rect) + (rect_op'.s - Rectangle_min_x(rect))
              /\ Rectangle_width(rect') = Rectangle_width(rect)
              /\ Rectangle_min_y(rect') = Rectangle_min_y(rect)
              /\ Rectangle_max_y(rect') = Rectangle_max_y(rect)
        /\ rect_op'.name = "set_y" =>
              /\ Rectangle_min_y(rect') = rect_op'.s
              /\ Rectangle_max_y(rect') =
                    Rectangle_max_y(rect) + (rect_op'.s - Rectangle_min_y(rect))
              /\ Rectangle_height(rect') = Rectangle_height(rect)
              /\ Rectangle_min_x(rect') = Rectangle_min_x(rect)
              /\ Rectangle_max_x(rect') = Rectangle_max_x(rect)
        /\ (rect = Rectangle_new(0, 0, 2, 2) /\ rect_op'.name = "set_x"
              /\ rect_op'.s = 1) =>
              /\ Rectangle_min_x(rect') = 1
              /\ Rectangle_max_x(rect') = 3
              /\ Rectangle_width(rect') = 2
      ]_vars

\* the scenario's end state: (0,0)-(2,2) moved by set_x(1)
C1_Witness ==
    /\ rect_op.name = "set_x" /\ rect_op.s = 1
    /\ rect = Rectangle_new(1, 0, 3, 2)

\* C2: after any sequence of set_x, set_y, set_position and set_center calls
\* width() and height() are what they were before the sequence.
C2_TranslatingKeepsSize == Rectangle_size(rect) = rect_size0

\* an inverted rectangle after at least two translating calls in a row
C2_Witness ==
    /\ rect_chain /\ rect_op.name = "set_center"
    /\ Rectangle_width(rect) < 0 /\ Rectangle_height(rect) > 0
    /\ rect.min # Vec2_new(0, 0)

\* C3: after set_center(c): center() = c and width(), height() are unchanged;
\* (0,0)-(2,2) after set_center((0,0)) is (-1,-1)-(1,1).
C3_SetCenter ==
    [][ /\ rect_op'.name = "set_center" =>
              /\ Rectangle_center(rect') = rect_op'.v
              /\ Rectangle_width(rect') = Rectangle_width(rect)
              /\ Rectangle_height(rect') = Rectangle_height(rect)
        /\ (rect = Rectangle_new(0, 0, 2, 2) /\ rect_op'.name = "set_center"
              /\ rect_op'.v = Vec2_new(0, 0)) =>
              rect' = Rectangle_new(0 - 1, 0 - 1, 1, 1)
      ]_vars

\* the scenario's end state
C3_Witness ==
    /\ rect_op.name = "set_center" /\ rect_op.v = Vec2_new(0, 0)
    /\ rect = Rectangle_new(0 - 1, 0 - 1, 1, 1)

\* C4: after set_width(w): width() = w, max_x() = min_x() + w, min and
\* max_y() are unchanged; set_height(h) likewise; set_size((w,h)) gives
\* size() = (w,h) with min unchanged.  Negative w and h included.
C4_SetWidthHeightSize ==
    [][ /\ rect_op'.name = "set_width" =>
              /\ Rectangle_width(rect') = rect_op'.s
              /\ Rectangle_max_x(rect') = Rectangle_min_x(rect') + rect_op'.s
              /\ Rectangle_min(rect') = Rectangle_min(rect)
              /\ Rectangle_max_y(rect') = Rectangle_max_y(rect)
        /\ rect_op'.name = "set_height" =>
              /\ Rectangle_height(rect') = rect_op'.s
              /\ Rectangle_max_y(rect') = Rectangle_min_y(rect') + rect_op'.s
              /\ Rectangle_min(rect') = Rectangle_min(rect)
              /\ Rectangle_max_x(rect') = Rectangle_max_x(rect)
        /\ rect_op'.name = "set_size" =>
              /\ Rectangle_size(rect') = rect_op'.v
              /\ Rectangle_min(rect') = Rectangle_min(rect)
      ]_vars

\* a negative width set on a rectangle that does not sit at the origin
C4_Witness ==
    /\ rect_op.name = "set_width" /\ rect_op.s < 0
    /\ Rectangle_min_x(rect) # 0
    /\ Rectangle_width(rect) = rect_op.s

\* C5: each edge setter writes exactly the scalar it names: set_min_x only
\* min.x (so width becomes old max_x - x), set_max_x only max.x, set_min_y
\* only min.y, set_max_y only max.y; set_min leaves max unchanged and set_max
\* leaves min unchanged.  set_min_x does not move max_x.
C5_EdgeSetters ==
    [][ /\ rect_op'.name = "set_min_x" =>
              /\ rect' = [rect EXCEPT !.min.x = rect_op'.s]
              /\ Rectangle_max_x(rect') = Rectangle_max_x(rect)
              /\ Rectangle_width(rect') = Rectangle_max_x(rect) - rect_op'.s
        /\ rect_op'.name = "set_max_x" =>
              rect' = [rect EXCEPT !.max.x = rect_op'.s]
        /\ rect_op'.name = "set_min_y" =>
              /\ rect' = [rect EXCEPT !.min.y = rect_op'.s]
              /\ Rectangle_height(rect') = Rectangle_max_y(rect) - rect_op'.s
        /\ rect_op'.name = "set_max_y" =>
              rect' = [rect EXCEPT !.max.y = rect_op'.s]
        /\ rect_op'.name = "set_min" =>
              /\ Rectangle_min(rect') = rect_op'.v
              /\ Rectangle_max(rect') = Rectangle_max(rect)
        /\ rect_op'.name = "set_max" =>
              /\ Rectangle_max(rect') = rect_op'.v
              /\ Rectangle_min(rect') = Rectangle_min(rect)
      ]_vars

\* set_min_x(1) has changed the width kept since the last resize of max
C5_Witness ==
    /\ rect_op.name = "set_min_x" /\ rect_op.s = 1
    /\ Rectangle_max_x(rect) = 2 /\ Rectangle_width(rect) = 1

\* C15: Rectangle::new_dimensions(min, w, h), negative w and h included, has
\* max() = min + (w, h), position() = min, x() = min_x() = min.x (y likewise),
\* width() = w, height() = h, size() = (w, h) and center() = min + (w, h) * 0.5;
\* Rectangle::new(a, b, c, d) is new_coordinates((a, b), (c, d)).
C15_Constructors ==
    /\ rect_op.name = "new_dimensions" =>
          LET min == rect_op.v
              w == rect_op.w.x
              h == rect_op.w.y
          IN  /\ Rectangle_min(rect) = min
              /\ Rectangle_max(rect) = Vec2_new(min.x + w, min.y + h)
              /\ Rectangle_position(rect) = min
              /\ Rectangle_x(rect) = min.x /\ Rectangle_min_x(rect) = min.x
              /\ Rectangle_y(rect) = min.y /\ Rectangle_min_y(rect) = min.y
              /\ Rectangle_max_x(rect) = min.x + w
              /\ Rectangle_max_y(rect) = min.y + h
              /\ Rectangle_width(rect) = w /\ Rectangle_height(rect) = h
              /\ Rectangle_size(rect) = Vec2_new(w, h)
              /\ (OnGridHalf(w) /\ OnGridHalf(h)) =>
                    Rectangle_center(rect) =
                        Vec2_new(min.x + MulHalf(w), min.y + MulHalf(h))
    /\ rect_op.name = "new" =>
          /\ rect = Rectangle_new_coordinates(rect_op.v, rect_op.w)
          /\ Rectangle_min(rect) = rect_op.v /\ Rectangle_max(rect) = rect_op.w
    /\ rect_op.name = "new_coordinates" =>
          rect = Rectangle_new(rect_op.v.x, rect_op.v.y, rect_op.w.x, rect_op.w.y)

\* new_dimensions with a negative width, away from the zero corner
C15_Witness ==
    /\ rect_op.name = "new_dimensions"
    /\ rect_op.v = Vec2_new(1, 0 - 1) /\ rect_op.w = Vec2_new(0 - 2, 2)
    /\ rect = Rectangle_new(1, 0 - 1, 0 - 1, 1)
    /\ Rectangle_center(rect) = Vec2_new(0, 0)

C19_SizeFedBack ==
    /\ rect_op.name = "set_size" /\ rect_same
    /\ rect_op.v = Rectangle_size(rect)
    /\ Rectangle_width(rect) < 0

(***************************************************************************)
(* Claims about Ray, checked under SpecRay (C8: SpecRayOrder)              *)
(***************************************************************************)

\* C6: in every state of a Ray, built by new_offset, new_direction or one of
\* UP/DOWN/LEFT/RIGHT and changed by any sequence of set_origin, set_offset
\* and set_direction calls, direction() is a unit vector or the zero vector.
C6_DirectionUnitOrZero ==
    IsUnit(Ray_direction(ray)) \/ Ray_direction(ray) = Vec2_ZERO

\* a unit direction off the axes, kept through a later set_origin
C6_Witness ==
    /\ ray_op.name = "set_origin"
    /\ Ray_direction(ray) = RawVec(0, 0, 1, 0 - 2, 5)
    /\ Ray_origin(ray) # Ray_origin(ray_old)

\* C7: after set_direction(d), and after new_direction(origin, d),
\* direction() is the zero vector iff d is the zero vector; otherwise it is
\* the unit vector pointing the same way as d (d = (1,1) gives
\* (1/sqrt 2, 1/sqrt 2)); origin() is unchanged (is the origin given).
C7_SetDirection ==
    LET d == ray_op.v
        dir == Ray_direction(ray)
    IN  /\ ray_op.name \in {"set_direction", "new_direction"} =>
              /\ (dir = Vec2_ZERO) <=> (d = Vec2_ZERO)
              /\ d # Vec2_ZERO => (IsUnit(dir) /\ SameDirection(dir, d))
              /\ d = GridVec(1, 1) => dir = RawVec(0, 0, 1, 1, 2)
        /\ ray_op.name = "set_direction" => Ray_origin(ray) = Ray_origin(ray_old)
        /\ ray_op.name = "new_direction" => Ray_origin(ray) = ray_op.o

\* set_direction((1,1)) on a ray that pointed elsewhere from another origin
C7_Witness ==
    /\ ray_op.name = "set_direction" /\ ray_op.v = GridVec(1, 1)
    /\ Ray_direction(ray) = RawVec(0, 0, 1, 1, 2)
    /\ Ray_direction(ray_old) # Ray_direction(ray)
    /\ Ray_origin(ray) # Vec2_ZERO

\* C8: set_offset uses the origin that is current when it is called: on a
\* ray with origin o1, set_origin(o2) then set_offset(p) leaves direction =
\* normalize_or_zero(p - o2), and set_offset(p) then set_origin(o2) leaves
\* direction = normalize_or_zero(p - o1); the two orders can give different
\* rays (C8_Witness).
C8_OrderMatters ==
    /\ ord_pc.a = 2 =>
          /\ Ray_direction(ord_a) =
                normalize_or_zero(Vec2_sub(ord_in.p, ord_in.o2))
          /\ Ray_origin(ord_a) = ord_in.o2
    /\ ord_pc.b >= 1 =>
          Ray_direction(ord_b) = normalize_or_zero(Vec2_sub(ord_in.p, ord_in.o1))
    /\ ord_pc.b = 2 => Ray_origin(ord_b) = ord_in.o2

\* both orders done, with different directions
C8_Witness ==
    /\ ord_pc.a = 2 /\ ord_pc.b = 2
    /\ Ray_direction(ord_a) # Ray_direction(ord_b)
    /\ Ray_origin(ord_a) = Ray_origin(ord_b)

\* C9, as claimed: for all rays and all points p, after set_offset(p) the
\* value offset() is on the half-line from origin through p at distance 1
\* from origin, and equals p only when the distance from origin to p is 1.
C9_OffsetAtUnitDistance ==
    ray_op.name = "set_offset" =>
        LET p == ray_op.v
            o == Ray_origin(ray)
            rel == Vec2_sub(Ray_offset(ray), o)
            aim == Vec2_sub(p, o)
        IN  /\ IsUnit(rel)
            /\ SameDirection(rel, aim)
            /\ Ray_offset(ray) = p => IsUnit(aim)

\* C9, amended: the above for every p other than the origin; for p equal to
\* the origin, offset() is the origin itself.
C9_OffsetAtUnitDistanceOrOrigin ==
    ray_op.name = "set_offset" =>
        LET p == ray_op.v
            o == Ray_origin(ray)
            rel == Vec2_sub(Ray_offset(ray), o)
            aim == Vec2_sub(p, o)
        IN  /\ p # o =>
                  /\ IsUnit(rel)
                  /\ SameDirection(rel, aim)
                  /\ Ray_offset(ray) = p => IsUnit(aim)
            /\ p = o => Ray_offset(ray) = o

\* set_offset(p) with p farther than 1 from a non-zero origin: offset() is
\* not p
C9_Witness ==
    /\ ray_op.name = "set_offset"
    /\ Ray_origin(ray) # Vec2_ZERO
    /\ ~IsUnit(Vec2_sub(ray_op.v, Ray_origin(ray)))
    /\ ray_op.v # Ray_origin(ray)
    /\ Ray_offset(ray) # ray_op.v
    /\ Ray_direction(ray) # Ray_direction(ray_old)

C20_ZeroDirectionFedBack ==
    /\ ray_op.name = "set_direction" /\ ray_op.v = Vec2_ZERO
    /\ Ray_direction(ray_old) = Vec2_ZERO /\ ray = ray_old
    /\ Ray_origin(ray) # Vec2_ZERO

(***************************************************************************)
(* Claims about Line, checked under SpecLine                               *)
(***************************************************************************)

ScalarNeg(a) == [b |-> 0 - a.b, s |-> 0 - a.s, n |-> a.n]

ScalarIsZero(a) == a.b = 0 /\ a.s = 0

ScalarAbs(a) == IF NonNeg(a.b, a.s, a.n) THEN a ELSE ScalarNeg(a)

ScalarEq(a, c) == ScalarGeq(a, c) /\ ScalarGeq(c, a)

\* origin and end differ in at most one coordinate
AxisAligned(l) ==
    \/ ScalarIsZero(Vec2_x(Vec2_sub(l.end, l.origin)))
    \/ ScalarIsZero(Vec2_y(Vec2_sub(l.end, l.origin)))

\* the distance between the end points of an axis-aligned line
AxisDistance(l) ==
    LET dx == Vec2_x(Vec2_sub(l.end, l.origin))
        dy == Vec2_y(Vec2_sub(l.end, l.origin))
    IN  IF ScalarIsZero(dx) THEN ScalarAbs(dy) ELSE ScalarAbs(dx)

\* C11, as claimed: for every axis-aligned line, length() is the distance
\* between origin and end, so it is not negative and is the same for the
\* line with origin and end swapped; the line (0,0) -> (2,0) has length 2.
C11_LengthIsDistance ==
    AxisAligned(line) =>
        LET len == Line_length(line)
            swapped == Line_new(Line_end(line), Line_origin(line))
        IN  /\ ScalarEq(len, AxisDistance(line))
            /\ ScalarGeq(len, GridScalar(0))
            /\ ScalarEq(Line_length(swapped), len)
            /\ line = Line_new(Vec2_ZERO, GridVec(2, 0)) => len = GridScalar(2)

\* the vector v has length |k|
HasLength(v, k) ==
    CASE v.n = 1 -> v.bx * v.bx + v.by * v.by = k * k
      [] v.n # 1 /\ v.bx = 0 /\ v.by = 0 -> v.sx * v.sx + v.sy * v.sy = k * k * v.n
      [] OTHER -> FALSE

\* C12: Line::new_direction(origin, direction, distance) has origin() =
\* origin and end() = origin + normalize_or_zero(direction) * distance: end()
\* is at distance |distance| from origin, the way direction points (the
\* opposite way for a negative distance); for the zero direction end() =
\* origin whatever the distance.
C12_NewDirection ==
    line_op.name = "new_direction" =>
        LET o == line_op.o
            d == line_op.v
            k == line_op.k
            rel == Vec2_sub(Line_end(line), o)
        IN  /\ Line_origin(line) = o
            /\ Line_end(line) = Vec2_add(o, Vec2_mul(normalize_or_zero(d), k))
            /\ d = Vec2_ZERO => Line_end(line) = o
            /\ d # Vec2_ZERO =>
                  /\ HasLength(rel, k)
                  /\ k > 0 => SameDirection(rel, d)
                  /\ k < 0 => SameDirection(rel, Vec2_neg(d))
                  /\ k = 0 => rel = Vec2_ZERO

\* a line built from a diagonal direction and a negative distance, away
\* from the zero origin
C12_Witness ==
    /\ line_op.name = "new_direction"
    /\ line_op.v = GridVec(1, 1) /\ line_op.k = 0 - 1
    /\ line_op.o = GridVec(1, 0)
    /\ Line_end(line) = RawVec(1, 0, 0 - 1, 0 - 1, 2)

(***************************************************************************)
(* Claims about Circle, checked under SpecCircle                           *)
(***************************************************************************)

\* C13: in every state of a Circle diameter() = 2 * radius(); after
\* new_diameter(c, d) radius() = d * 0.5; after set_diameter(d) diameter() = d
\* and radius() = d * 0.5; after set_radius(r) diameter() = 2 * r.  Negative
\* and zero values included; Circle::new_diameter((0,0), 2) has radius 1.
C13_DiameterRadius ==
    /\ Circle_diameter(circle) = 2 * Circle_radius(circle)
    /\ circle_op.name = "new_diameter" =>
          /\ Circle_radius(circle) = MulHalf(circle_op.s)
          /\ 2 * Circle_radius(circle) = circle_op.s
          /\ Circle_center(circle) = circle_op.v
    /\ circle_op.name = "set_diameter" =>
          /\ Circle_diameter(circle) = circle_op.s
          /\ Circle_radius(circle) = MulHalf(circle_op.s)
          /\ 2 * Circle_radius(circle) = circle_op.s
    /\ circle_op.name = "set_radius" =>
          /\ Circle_radius(circle) = circle_op.s
          /\ Circle_diameter(circle) = 2 * circle_op.s
    /\ (circle_op.name = "new_diameter" /\ circle_op.s = 2
          /\ circle_op.v = Vec2_new(0, 0)) => Circle_radius(circle) = 1

\* a negative diameter set on a circle away from the zero center
C13_Witness ==
    /\ circle_op.name = "set_diameter" /\ circle_op.s = 0 - 2
    /\ Circle_radius(circle) = 0 - 1
    /\ Circle_diameter(circle) = 0 - 2
    /\ Circle_center(circle) # Vec2_new(0, 0)

(***************************************************************************)
(* Claims about all six shapes, checked under SpecShapes                   *)
(***************************************************************************)

\* every stored field holds a number (a vector of numbers): no call has left
\* anything else behind
ShapesWellFormed ==
    /\ rect.min.x \in Int /\ rect.min.y \in Int
    /\ rect.max.x \in Int /\ rect.max.y \in Int
    /\ circle.radius \in Int /\ circle.center \in Points
    /\ \A c \in {tri.coordinate1, tri.coordinate2, tri.coordinate3,
                 point.coordinate} : c \in Points
    /\ \A v \in {ray.origin, ray.direction, line.origin, line.end} :
          /\ v.bx \in Int /\ v.by \in Int /\ v.sx \in Int /\ v.sy \in Int
          /\ v.n \in Nat \ {0}

\* C14: no constructor or setter rejects, clamps or reorders its input.  A
\* radius is stored as given, negative ones too; a rectangle built or
\* changed so that max < min keeps the corners given; a zero direction, or
\* an offset equal to the origin, gives a ray with zero direction; the
\* plain constructors and setters of Line, Triangle and Point store their
\* arguments; every state holds well-formed values.
C14_NoRejectNoClamp ==
    /\ ShapesWellFormed
    /\ circle_op.name \in {"new", "set_radius"} =>
          Circle_radius(circle) = circle_op.s
    /\ circle_op.name \in {"new", "set_center"} =>
          Circle_center(circle) = circle_op.v
    /\ rect_op.name \in {"new", "new_coordinates"} =>
          /\ Rectangle_min(rect) = rect_op.v /\ Rectangle_max(rect) = rect_op.w
          /\ Rectangle_width(rect) = rect_op.w.x - rect_op.v.x
          /\ Rectangle_height(rect) = rect_op.w.y - rect_op.v.y
    /\ rect_op.name = "new_dimensions" =>
          Rectangle_min(rect) = rect_op.v /\ Rectangle_size(rect) = rect_op.w
    /\ rect_op.name = "set_min" => Rectangle_min(rect) = rect_op.v
    /\ rect_op.name = "set_max" => Rectangle_max(rect) = rect_op.v
    /\ rect_op.name = "set_min_x" => Rectangle_min_x(rect) = rect_op.s
    /\ rect_op.name = "set_max_x" => Rectangle_max_x(rect) = rect_op.s
    /\ rect_op.name = "set_min_y" => Rectangle_min_y(rect) = rect_op.s
    /\ rect_op.name = "set_max_y" => Rectangle_max_y(rect) = rect_op.s
    /\ rect_op.name = "set_width" => Rectangle_width(rect) = rect_op.s
    /\ rect_op.name = "set_height" => Rectangle_height(rect) = rect_op.s
    /\ rect_op.name = "set_size" => Rectangle_size(rect) = rect_op.v
    /\ rect_op.name = "set_position" => Rectangle_position(rect) = rect_op.v
    /\ (ray_op.name \in {"new_direction", "set_direction"} /\ ray_op.v = Vec2_ZERO) =>
          Ray_direction(ray) = Vec2_ZERO
    /\ (ray_op.name \in {"new_offset", "set_offset"} /\ ray_op.v = Ray_origin(ray)) =>
          Ray_direction(ray) = Vec2_ZERO
    /\ ray_op.name \in {"new_offset", "new_direction", "set_origin"} =>
          Ray_origin(ray) = IF ray_op.name = "set_origin" THEN ray_op.v ELSE ray_op.o
    /\ line_op.name = "new" =>
          Line_origin(line) = line_op.o /\ Line_end(line) = line_op.v
    /\ line_op.name = "set_origin" => Line_origin(line) = line_op.v
    /\ line_op.name = "set_end" => Line_end(line) = line_op.v
    /\ tri_op.name = "set_coordinate1" => Triangle_coordinate1(tri) = tri_op.v
    /\ tri_op.name = "set_coordinate2" => Triangle_coordinate2(tri) = tri_op.v
    /\ tri_op.name = "set_coordinate3" => Triangle_coordinate3(tri) = tri_op.v
    /\ point_op.name \in {"new", "set_coordinate"} =>
          Point_coordinate(point) = point_op.v

\* a rectangle turned inside out by set_max: both corners as given, width
\* and height negative
C14_Witness ==
    /\ rect_op.name = "set_max" /\ rect_op.v = Vec2_new(0 - 1, 0 - 1)
    /\ Rectangle_min(rect) = Vec2_new(1, 1)
    /\ Rectangle_max(rect) = Vec2_new(0 - 1, 0 - 1)
    /\ Rectangle_width(rect) < 0 /\ Rectangle_height(rect) < 0

\* the other cases the claim names: a negative radius stored as given ...
C14_NegativeRadius ==
    circle_op.name = "set_radius" /\ Circle_radius(circle) = 0 - 1

\* ... and a ray aimed at its own origin
C14_RayAtOwnOrigin ==
    /\ ray_op.name = "set_offset" /\ ray_op.v = Ray_origin(ray)
    /\ Ray_origin(ray) # Vec2_ZERO /\ Ray_direction(ray) = Vec2_ZERO
    /\ Ray_direction(ray_old) # Vec2_ZERO

\* C17: a plain field setter stores its argument and leaves the other fields
\* as they were.  Triangle::set_coordinateN changes coordinateN only;
\* Line::set_origin leaves end() and Line::set_end leaves origin();
\* Circle::set_center leaves radius(), set_radius and set_diameter leave
\* center(); Ray::set_origin leaves direction(), so offset() moves by the
\* translation of the origin: Ray::UP after set_origin((1,1)) has offset()
\* = (1,2).  In a step, the unprimed shape is the one before the call.
C17_PlainSettersFrame ==
    [][ /\ tri_op'.name = "set_coordinate1" =>
              tri' = [tri EXCEPT !.coordinate1 = tri_op'.v]
        /\ tri_op'.name = "set_coordinate2" =>
              tri' = [tri EXCEPT !.coordinate2 = tri_op'.v]
        /\ tri_op'.name = "set_coordinate3" =>
              tri' = [tri EXCEPT !.coordinate3 = tri_op'.v]
        /\ line_op'.name = "set_origin" =>
              /\ Line_origin(line') = line_op'.v
              /\ Line_end(line') = Line_end(line)
        /\ line_op'.name = "set_end" =>
              /\ Line_end(line') = line_op'.v
              /\ Line_origin(line') = Line_origin(line)
        /\ circle_op'.name = "set_center" =>
              /\ Circle_center(circle') = circle_op'.v
              /\ Circle_radius(circle') = Circle_radius(circle)
        /\ circle_op'.name \in {"set_radius", "set_diameter"} =>
              Circle_center(circle') = Circle_center(circle)
        /\ ray_op'.name = "set_origin" =>
              /\ Ray_origin(ray') = ray_op'.v
              /\ Ray_direction(ray') = Ray_direction(ray)
              /\ Vec2_sub(Ray_offset(ray'), Ray_offset(ray)) =
                    Vec2_sub(ray_op'.v, Ray_origin(ray))
        /\ (ray = Ray_UP /\ ray_op'.name = "set_origin"
              /\ ray_op'.v = GridVec(1, 1)) => Ray_offset(ray') = GridVec(1, 2)
      ]_vars

\* Ray::UP moved by set_origin((1,1))
C17_Witness ==
    /\ ray_op.name = "set_origin" /\ ray_op.v = GridVec(1, 1)
    /\ ray_old = Ray_UP
    /\ Ray_direction(ray) = GridVec(0, 1)
    /\ Ray_offset(ray) = GridVec(1, 2)

\* set_coordinate2 on a triangle whose other two corners differ from it
C17_TriangleSecondCorner ==
    /\ tri_op.name = "set_coordinate2" /\ tri_op.v = Vec2_new(1, 0 - 1)
    /\ Triangle_coordinate1(tri) = Vec2_new(0, 1)
    /\ Triangle_coordinate3(tri) = Vec2_new(0 - 1, 0)

(***************************************************************************)
(* Claims about the getters, checked under SpecShapesRead.  A step that    *)
(* leaves a getter's name in got is a getter call.                         *)
(***************************************************************************)

\* C16: a getter call, derived getters such as Rectangle::center,
\* Ray::offset, Line::length and Circle::diameter included, leaves every
\* stored field of every shape as it was, and the second of two calls of the
\* same getter in a row returns what the first returned.
C16_GettersDoNotMutate ==
    [][ got'.name # "none" =>
            /\ rect' = rect /\ ray' = ray /\ line' = line
            /\ circle' = circle /\ tri' = tri /\ point' = point
            /\ got'.again => got'.ret = got.ret
      ]_vars

\* offset() read twice in a row on a ray that set_origin has moved
C16_Witness ==
    /\ got.shape = "Ray" /\ got.name = "offset" /\ got.again
    /\ ray_op.name = "set_origin"
    /\ Ray_origin(ray) = GridVec(1, 1)
    /\ got.ret = RawVec(1, 1, 1, 1, 2)

\* center() read twice in a row on an inverted rectangle
C16_RectangleCenterTwice ==
    /\ got.shape = "Rectangle" /\ got.name = "center" /\ got.again
    /\ Rectangle_width(rect) < 0
    /\ got.ret = Rectangle_center(rect)

=============================================================================
